---- MODULE Spec2Model ----
(***************************************************************************)
(* The authenticated request pipeline of the Bitpin Go SDK: NewClient,     *)
(* handleAutoRefresh, Request, Authenticate, RefreshAccessToken and the    *)
(* helpers they use (assertAuth, DecodeJWT, IsExpired, parseErrorResponse).*)
(* A caller is a process that invokes the client's operations; every       *)
(* operation is cut into steps at its HTTP round trips and at its reads    *)
(* and writes of the shared Client fields.  The HTTP server and the wall   *)
(* clock are the environment: a response is any member of Responses, and   *)
(* the clock may advance between any two steps.                            *)
(***************************************************************************)
EXTENDS Integers, Sequences, FiniteSets, TLC

\* Latest wall-clock second the model lets time.Now() reach.
MaxNow == 2

\* The callers of the client.
Procs == {"p1", "p2"}

\* The API version constant.
Version == "v1"

-----------------------------------------------------------------------------
(* Token strings.  A token string is kept by what DecodeJWT can see of it:  *)
(* the empty string, a string that is no JWT, or a JWT whose payload        *)
(* carries the claim exp.                                                   *)

Empty == [kind |-> "empty", exp |-> 0]

Garbage == [kind |-> "garbage", exp |-> 0]

Jwt(e) == [kind |-> "jwt", exp |-> e]

\* Values of the claim exp: a token is expired once the clock has passed exp.
Exps == {0, 1}

Tokens == {Empty, Garbage} \cup {Jwt(e) : e \in Exps}

\* API key and secret key strings.
ApiKeys == {"", "k"}

SecretKeys == {"", "s"}

-----------------------------------------------------------------------------
(* Errors.  An error value is the chain errors.Unwrap walks, outermost     *)
(* first; nil is the empty chain.                                           *)

Nil == << >>

NoDetails == [f \in {} |-> << >>]

Layer(type, msg, op, status, details) ==
    [type |-> type, Message |-> msg, Operation |-> op, StatusCode |-> status,
     Details |-> details, Summary |-> {}]

\* &GoBitpinError{Message: msg, Err: cause}
GoBitpinError(msg, cause) ==
    << Layer("GoBitpinError", msg, "", 0, NoDetails) >> \o cause

\* &RequestError{GoBitpinError{Message: msg, Err: cause}, Operation: op}
RequestError(msg, op, cause) ==
    << Layer("RequestError", msg, op, 0, NoDetails) >> \o cause

\* An error of the standard library or of a dependency (net/http, io, json,
\* reflect, jwt).
External(msg) == << Layer("external", msg, "", 0, NoDetails) >>

\* errors.As(err, &apiErr): some layer of the chain is an *APIError.
IsAPIError(e) == \E i \in 1 .. Len(e) : e[i].type = "APIError"

MissingCredentials == GoBitpinError("API key and/or secret key are empty", Nil)

-----------------------------------------------------------------------------
(* Token codec.                                                             *)

\* DecodeJWT: the payload of a parseable token, or an error.
DecodeJWT(t) ==
    IF t.kind = "jwt"
    THEN [err |-> Nil, jwt |-> [Exp |-> t.exp]]
    ELSE [err |-> << Layer("fmt", "failed to parse token", "", 0, NoDetails) >>
                      \o External("token is malformed"),
          jwt |-> [Exp |-> 0]]

\* JWT.IsExpired at wall-clock second t.
IsExpired(j, t) == j.Exp < t

-----------------------------------------------------------------------------
(* Error normalizer.  A response body is kept by what encoding/json sees of *)
(* it: not JSON at all, the JSON value null, a JSON value that is neither   *)
(* an object nor null, or a JSON object, whose members are kept by type.    *)
(* text is the body verbatim.                                               *)

\* Member values of a JSON object.
JStr(s) == [k |-> "str", v |-> << s >>, mm |-> NoDetails]

JList(l) == [k |-> "list", v |-> l, mm |-> NoDetails]

JNum == [k |-> "num", v |-> << >>, mm |-> NoDetails]

JNull == [k |-> "null", v |-> << >>, mm |-> NoDetails]

\* An object whose members are all strings: mm maps each key to << string >>.
JMap(mm) == [k |-> "map", v |-> << >>, mm |-> mm]

JObject(text, m) == [json |-> "object", text |-> text, m |-> m]

NotJson(text) == [json |-> "invalid", text |-> text, m |-> NoDetails]

JsonNull == [json |-> "null", text |-> "null", m |-> NoDetails]

JsonScalar(text) == [json |-> "scalar", text |-> text, m |-> NoDetails]

\* json.Unmarshal(respBody, &details) with details map[string][]string
UnmarshalListMap(b) ==
    IF b.json = "null" THEN [ok |-> TRUE, details |-> NoDetails]
    ELSE IF b.json = "object" /\ \A f \in DOMAIN b.m : b.m[f].k \in {"list", "null"}
    THEN [ok |-> TRUE, details |-> [f \in DOMAIN b.m |-> b.m[f].v]]
    ELSE [ok |-> FALSE, details |-> NoDetails]

\* json.Unmarshal(respBody, &simpleDetails) with simpleDetails map[string]string,
\* each value then wrapped into a one-element list
UnmarshalStringMap(b) ==
    IF b.json = "null" THEN [ok |-> TRUE, details |-> NoDetails]
    ELSE IF b.json = "object" /\ \A f \in DOMAIN b.m : b.m[f].k \in {"str", "null"}
    THEN [ok |-> TRUE,
          details |-> [f \in DOMAIN b.m |->
                          IF b.m[f].k = "str" THEN b.m[f].v ELSE << "" >>]]
    ELSE [ok |-> FALSE, details |-> NoDetails]

\* The string a member decodes to in the errResp struct: "" when absent or null.
StructString(b, f) ==
    IF f \in DOMAIN b.m /\ b.m[f].k = "str" THEN b.m[f].v[1] ELSE ""

\* A faulty variant of UnmarshalErrorResponse that refuses an object with a
\* member the struct does not know.
UnmarshalErrorResponseStrict(b) ==
    IF b.json = "null" THEN [ok |-> TRUE, details |-> NoDetails]
    ELSE IF /\ b.json = "object"
            /\ DOMAIN b.m \subseteq {"detail", "code", "messages"}
            /\ \A f \in {"detail", "code"} \cap DOMAIN b.m : b.m[f].k \in {"str", "null"}
            /\ "messages" \in DOMAIN b.m => b.m["messages"].k \in {"map", "null"}
    THEN LET msgs == IF "messages" \in DOMAIN b.m
                     THEN b.m["messages"].mm ELSE NoDetails
             heads == {f \in {"detail", "code"} : StructString(b, f) # ""}
         IN  [ok |-> TRUE,
              details |-> [f \in heads \cup DOMAIN msgs |->
                              IF f \in DOMAIN msgs THEN msgs[f]
                              ELSE << StructString(b, f) >>]]
    ELSE [ok |-> FALSE, details |-> NoDetails]

\* json.Unmarshal(respBody, &errResp) with errResp {detail, code, messages},
\* and the details built from it
UnmarshalErrorResponse(b) ==
    IF b.json = "null" THEN [ok |-> TRUE, details |-> NoDetails]
    ELSE IF /\ b.json = "object"
            /\ \A f \in {"detail", "code"} \cap DOMAIN b.m : b.m[f].k \in {"str", "null"}
            /\ "messages" \in DOMAIN b.m => b.m["messages"].k \in {"map", "null"}
    THEN LET msgs == IF "messages" \in DOMAIN b.m
                     THEN b.m["messages"].mm ELSE NoDetails
             heads == {f \in {"detail", "code"} : StructString(b, f) # ""}
         IN  [ok |-> TRUE,
              details |-> [f \in heads \cup DOMAIN msgs |->
                              IF f \in DOMAIN msgs THEN msgs[f]
                              ELSE << StructString(b, f) >>]]
    ELSE [ok |-> FALSE, details |-> NoDetails]

\* A faulty variant of formatErrorDetails that takes each entry's last message.
formatErrorDetailsLast(details) ==
    {<< f, details[f][Len(details[f])] >> :
        f \in {g \in DOMAIN details : Len(details[g]) > 0}}

\* formatErrorDetails: one "field: first-message" fragment for every entry that
\* holds a message.  The fragments are kept as a set: Go ranges over the map in
\* an unspecified order.
formatErrorDetails(details) ==
    {<< f, details[f][1] >> : f \in {g \in DOMAIN details : Len(details[g]) > 0}}

APIError(statusCode, summary, details) ==
    << [type |-> "APIError", Message |-> "API error (status %d): %s",
        Operation |-> "", StatusCode |-> statusCode, Details |-> details,
        Summary |-> summary] >>

\* A faulty variant of parseErrorResponse that tries the structured shape
\* before the field -> string shape.
parseErrorResponseStructFirst(statusCode, respBody) ==
    LET a == UnmarshalListMap(respBody)
        b == UnmarshalStringMap(respBody)
        c3 == UnmarshalErrorResponse(respBody)
    IN  IF a.ok THEN APIError(statusCode, formatErrorDetails(a.details), a.details)
        ELSE IF c3.ok
        THEN APIError(statusCode, formatErrorDetails(c3.details), c3.details)
        ELSE IF b.ok
        THEN APIError(statusCode, formatErrorDetails(b.details), b.details)
        ELSE APIError(statusCode, {<< respBody.text >>},
                      [f \in {"raw"} |-> << respBody.text >>])

\* parseErrorResponse: the first of the three shapes that unmarshals, else raw.
parseErrorResponse(statusCode, respBody) ==
    LET a == UnmarshalListMap(respBody)
        b == UnmarshalStringMap(respBody)
        c3 == UnmarshalErrorResponse(respBody)
    IN  IF a.ok THEN APIError(statusCode, formatErrorDetails(a.details), a.details)
        ELSE IF b.ok
        THEN APIError(statusCode, formatErrorDetails(b.details), b.details)
        ELSE IF c3.ok
        THEN APIError(statusCode, formatErrorDetails(c3.details), c3.details)
        ELSE APIError(statusCode, {<< respBody.text >>},
                      [f \in {"raw"} |-> << respBody.text >>])

-----------------------------------------------------------------------------
(* The HTTP exchange.                                                       *)

\* Status codes the server answers with.
Statuses == {199, 200, 300, 401, 429}

\* Error bodies the server answers with.
ErrBodies ==
    {JObject("{\"detail\":\"not found\"}", [f \in {"detail"} |-> JStr("not found")]),
     NotJson("oops")}

NoResp ==
    [kind |-> "none", status |-> 0, body |-> JsonNull, decodes |-> "ok",
     access |-> Empty, refresh |-> Empty]

Http(status, body, decodes, access, refresh) ==
    [kind |-> "http", status |-> status, body |-> body, decodes |-> decodes,
     access |-> access, refresh |-> refresh]

\* What HttpClient.Do and io.ReadAll can hand back for a request to endpoint:
\* a transport failure, a body that cannot be read, an error status with any
\* body, or a 2xx status whose body is malformed JSON ("syntax"), JSON of
\* another type than the target ("type"), or decodes.  access and refresh are
\* the members of that name of a decoded body, "" when it has none.
Responses(endpoint) ==
    {[NoResp EXCEPT !.kind = "transport"], [NoResp EXCEPT !.kind = "read"]}
    \cup {Http(st, b, "ok", Empty, Empty) :
             st \in {x \in Statuses : x < 200 \/ x >= 300}, b \in ErrBodies}
    \cup {Http(st, JsonNull, d, Empty, Empty) :
             st \in {x \in Statuses : ~(x < 200 \/ x >= 300)}, d \in {"syntax", "type"}}
    \cup {Http(st, JsonNull, "ok", a, r) :
             st \in {x \in Statuses : ~(x < 200 \/ x >= 300)},
             a \in IF endpoint \in {"/usr/authenticate/", "/usr/refresh_token/"}
                   THEN Tokens ELSE {Empty},
             r \in IF endpoint = "/usr/authenticate/" THEN Tokens ELSE {Empty}}

\* createApiURI: "<BaseUrl>/api/<version><endpoint>", without the base URL.
createApiURI(endpoint, version) ==
    << "/api/", IF version = "" THEN Version ELSE version, endpoint >>

NoAuthorization == [set |-> FALSE, bearer |-> Empty]

Bearer(t) == [set |-> TRUE, bearer |-> t]

\* The request Request hands to HttpClient.Do: Content-Type is always set,
\* Authorization only for an authenticated call.
HttpRequest(method, url, authorization, body) ==
    [method |-> method, url |-> url, ContentType |-> "application/json",
     Authorization |-> authorization, body |-> body]

NoBody == [api_key |-> "", secret_key |-> "", refresh |-> Empty, params |-> "nil"]

\* A faulty variant of RequestOutcome whose status test lets 300 through.
RequestOutcomeOffByOne(r, hasResult) ==
    IF r.kind = "transport"
    THEN [err |-> RequestError("failed to send request", "sending request",
                               External("transport")),
          result |-> "untouched"]
    ELSE IF r.kind = "read"
    THEN [err |-> RequestError("failed to read response body", "reading response",
                               External("read")),
          result |-> "untouched"]
    ELSE IF r.status < 200 \/ r.status > 300
    THEN [err |-> parseErrorResponse(r.status, r.body), result |-> "untouched"]
    ELSE IF hasResult /\ r.decodes # "ok"
    THEN [err |-> RequestError("failed to unmarshal response", "parsing response",
                               External(r.decodes)),
          result |-> IF r.decodes = "type" THEN "partial" ELSE "untouched"]
    ELSE [err |-> Nil, result |-> IF hasResult THEN "written" ELSE "untouched"]

\* A faulty variant of RequestOutcome that decodes the body even when the
\* caller gave no decode target.
RequestOutcomeAlwaysDecodes(r, hasResult) ==
    IF r.kind = "transport"
    THEN [err |-> RequestError("failed to send request", "sending request",
                               External("transport")),
          result |-> "untouched"]
    ELSE IF r.kind = "read"
    THEN [err |-> RequestError("failed to read response body", "reading response",
                               External("read")),
          result |-> "untouched"]
    ELSE IF r.status < 200 \/ r.status >= 300
    THEN [err |-> parseErrorResponse(r.status, r.body), result |-> "untouched"]
    ELSE IF r.decodes # "ok"
    THEN [err |-> RequestError("failed to unmarshal response", "parsing response",
                               External(r.decodes)),
          result |-> IF r.decodes = "type" THEN "partial" ELSE "untouched"]
    ELSE [err |-> Nil, result |-> IF hasResult THEN "written" ELSE "untouched"]

\* Request from HttpClient.Do on: the error returned and what became of the
\* caller's decode target.
RequestOutcome(r, hasResult) ==
    IF r.kind = "transport"
    THEN [err |-> RequestError("failed to send request", "sending request",
                               External("transport")),
          result |-> "untouched"]
    ELSE IF r.kind = "read"
    THEN [err |-> RequestError("failed to read response body", "reading response",
                               External("read")),
          result |-> "untouched"]
    ELSE IF r.status < 200 \/ r.status >= 300
    THEN [err |-> parseErrorResponse(r.status, r.body), result |-> "untouched"]
    ELSE IF hasResult /\ r.decodes # "ok"
    THEN [err |-> RequestError("failed to unmarshal response", "parsing response",
                               External(r.decodes)),
          result |-> IF r.decodes = "type" THEN "partial" ELSE "untouched"]
    ELSE [err |-> Nil, result |-> IF hasResult THEN "written" ELSE "untouched"]

\* A faulty variant of assertAuth that looks at the refresh token first.
assertAuthRefreshFirst(client) ==
    IF client.RefreshToken = Empty
    THEN GoBitpinError("refresh token is empty", Nil)
    ELSE IF client.AccessToken = Empty
    THEN GoBitpinError("access token is empty", Nil)
    ELSE Nil

\* assertAuth
assertAuth(client) ==
    IF client.AccessToken = Empty
    THEN GoBitpinError("access token is empty", Nil)
    ELSE IF client.RefreshToken = Empty
    THEN GoBitpinError("refresh token is empty", Nil)
    ELSE Nil

-----------------------------------------------------------------------------
(* State.                                                                   *)

VARIABLES
    now,     \* time.Now().Unix()
    c,       \* the Client's fields
    built,   \* "no": no client yet; "building": NewClient runs; "yes": returned;
             \* "failed": NewClient returned nil and an error
    pc,      \* each caller's position in the code
    stack,   \* each caller's call stack, the operation it invoked first
    calls,   \* the procedures each caller's operation has entered, in order
    arg,     \* the arguments of each caller's operation
    entry,   \* the Client's fields and the time when each caller's operation began
    log,     \* the requests each caller's operation handed to HttpClient.Do
    resp,    \* the response each caller received last
    err,     \* the error returned last to each caller (or to its current frame)
    result,  \* what became of the decode target of each caller's Request
    input,   \* the arguments of a function of the package called on its own
    output   \* what that function returned

vars ==
    << now, c, built, pc, stack, calls, arg, entry, log, resp, err, result,
       input, output >>

\* No function called on its own, and nothing returned yet.
NoInput == [fn |-> "none"]

NoOutput == [set |-> FALSE]

Returned(v) == [set |-> TRUE, value |-> v]

\* The package's base URL, which NewClient gives a client whose options name
\* none.
BaseUrl == "BaseUrl"

\* The zero value of Client.
ZeroClient ==
    [AccessToken |-> Empty, RefreshToken |-> Empty, ApiKey |-> "", SecretKey |-> "",
     AutoRefresh |-> FALSE, BaseUrl |-> ""]

NoEntry == [client |-> ZeroClient, at |-> 0]

\* ClientOptions values.
Options ==
    [AccessToken : Tokens, RefreshToken : Tokens, ApiKey : ApiKeys,
     SecretKey : SecretKeys, AutoAuth : BOOLEAN, AutoRefresh : BOOLEAN]

\* Arguments of a Request call: body is a value that encodes ("ok") or one
\* that does not ("bad": no struct for GET, not marshalable for POST).
RequestArgs ==
    [method : {"GET", "POST"}, endpoint : {"/odr/orders/"}, auth : BOOLEAN,
     body : {"ok", "bad"}, hasResult : BOOLEAN]

NoArg == [method |-> "", endpoint |-> "", auth |-> FALSE, body |-> "nil",
          hasResult |-> FALSE]

\* A caller's frame: where it is, its stack, the error in hand, its requests.
Frame(p) ==
    [pc |-> pc[p], stack |-> stack[p], calls |-> calls[p], err |-> err[p],
     log |-> log[p]]

NewFrame == [pc |-> "idle", stack |-> << >>, calls |-> << >>, err |-> Nil,
             log |-> << >>]

Pop(q) == SubSeq(q, 1, Len(q) - 1)

Top(q) == q[Len(q)]

\* Enter procedure name at label.
Call(f, name, label) ==
    [f EXCEPT !.stack = Append(@, name), !.calls = Append(@, name), !.pc = label]

\* c.HttpClient.Do(req)
Do(f, req, label) == [f EXCEPT !.log = Append(@, req), !.pc = label]

\* The operation the caller invoked returns e.
Done(f, e) == [f EXCEPT !.pc = "done", !.err = e]

\* handleAutoRefresh returns e to NewClient or Request.
ReturnFromHandleAutoRefresh(f, e) ==
    [f EXCEPT !.stack = Pop(@), !.pc = "har_ret", !.err = e]

\* A faulty variant of ReturnFromRefresh that sends the request once more
\* after a failure.
ReturnFromRefreshRetry(f, e) ==
    IF e # Nil /\ Len(f.log) < 2 THEN [f EXCEPT !.pc = "rf_send"]
    ELSE IF Len(f.stack) = 1 THEN Done(f, e)
    ELSE IF e # Nil THEN ReturnFromHandleAutoRefresh([f EXCEPT !.stack = Pop(@)], e)
    ELSE [f EXCEPT !.stack = Pop(@), !.pc = "har_refresh", !.err = Nil]

\* A faulty variant of ReturnFromRefresh in which handleAutoRefresh checks the
\* token it was given once more.
ReturnFromRefreshRecheck(f, e) ==
    IF Len(f.stack) = 1 THEN Done(f, e)
    ELSE IF e # Nil THEN ReturnFromHandleAutoRefresh([f EXCEPT !.stack = Pop(@)], e)
    ELSE [f EXCEPT !.stack = Pop(@), !.pc = "har_access", !.err = Nil]

\* RefreshAccessToken returns e: to the caller itself, or to handleAutoRefresh,
\* which returns an error at once and goes on to the refresh token otherwise.
ReturnFromRefresh(f, e) ==
    IF Len(f.stack) = 1 THEN Done(f, e)
    ELSE IF e # Nil THEN ReturnFromHandleAutoRefresh([f EXCEPT !.stack = Pop(@)], e)
    ELSE [f EXCEPT !.stack = Pop(@), !.pc = "har_refresh", !.err = Nil]

\* Authenticate returns e: to the caller itself, to handleAutoRefresh, which
\* returns it, or to NewClient, which returns it.
ReturnFromAuthenticate(f, e) ==
    IF Len(f.stack) = 1 THEN Done(f, e)
    ELSE IF f.stack[Len(f.stack) - 1] = "handleAutoRefresh"
    THEN ReturnFromHandleAutoRefresh([f EXCEPT !.stack = Pop(@)], e)
    ELSE Done([f EXCEPT !.stack = Pop(@)], e)

\* A faulty variant of AuthenticateStart that sends its request with auth =
\* true, through handleAutoRefresh.
AuthenticateStartWithAuth(f, apiKey, secretKey) ==
    LET g == Call(f, "Authenticate", "au_wait")
    IN  IF apiKey = "" \/ secretKey = ""
        THEN ReturnFromAuthenticate(g, MissingCredentials)
        ELSE Call(g, "handleAutoRefresh", "har_access")

\* Authenticate up to its request: the guard on its arguments, then the POST.
AuthenticateStart(f, apiKey, secretKey) ==
    LET g == Call(f, "Authenticate", "au_wait")
    IN  IF apiKey = "" \/ secretKey = ""
        THEN ReturnFromAuthenticate(g, MissingCredentials)
        ELSE Do(g, HttpRequest("POST", createApiURI("/usr/authenticate/", Version),
                               NoAuthorization,
                               [NoBody EXCEPT !.api_key = apiKey,
                                              !.secret_key = secretKey]),
                "au_wait")

\* A faulty variant of handleAutoRefreshAccess that leaves the refresh to a
\* caller who is already at it.
handleAutoRefreshAccessSingleFlight(f, client, t) ==
    LET decoded == DecodeJWT(client.AccessToken)
    IN  IF client.AccessToken = Empty THEN [f EXCEPT !.pc = "har_refresh"]
        ELSE IF decoded.err # Nil THEN ReturnFromHandleAutoRefresh(f, decoded.err)
        ELSE IF /\ IsExpired(decoded.jwt, t)
                /\ \A q \in Procs : pc[q] \notin {"rf_send", "rf_wait"}
        THEN Call(f, "RefreshAccessToken", "rf_send")
        ELSE [f EXCEPT !.pc = "har_refresh"]

\* A faulty variant of handleAutoRefreshAccess that fetches a missing access
\* token with the refresh token.
handleAutoRefreshAccessAcquire(f, client, t) ==
    LET decoded == DecodeJWT(client.AccessToken)
    IN  IF client.AccessToken = Empty
        THEN IF client.RefreshToken = Empty THEN [f EXCEPT !.pc = "har_refresh"]
             ELSE Call(f, "RefreshAccessToken", "rf_send")
        ELSE IF decoded.err # Nil THEN ReturnFromHandleAutoRefresh(f, decoded.err)
        ELSE IF IsExpired(decoded.jwt, t)
        THEN Call(f, "RefreshAccessToken", "rf_send")
        ELSE [f EXCEPT !.pc = "har_refresh"]

\* handleAutoRefresh, the access token: decode it and refresh it when expired.
handleAutoRefreshAccess(f, client, t) ==
    LET decoded == DecodeJWT(client.AccessToken)
    IN  IF client.AccessToken = Empty THEN [f EXCEPT !.pc = "har_refresh"]
        ELSE IF decoded.err # Nil THEN ReturnFromHandleAutoRefresh(f, decoded.err)
        ELSE IF IsExpired(decoded.jwt, t)
        THEN Call(f, "RefreshAccessToken", "rf_send")
        ELSE [f EXCEPT !.pc = "har_refresh"]

\* handleAutoRefresh, the refresh token: decode it and re-authenticate when
\* expired.
handleAutoRefreshRefresh(f, client, t) ==
    LET decoded == DecodeJWT(client.RefreshToken)
    IN  IF client.RefreshToken = Empty THEN ReturnFromHandleAutoRefresh(f, Nil)
        ELSE IF decoded.err # Nil THEN ReturnFromHandleAutoRefresh(f, decoded.err)
        ELSE IF ~IsExpired(decoded.jwt, t) THEN ReturnFromHandleAutoRefresh(f, Nil)
        ELSE IF client.ApiKey = "" \/ client.SecretKey = ""
        THEN ReturnFromHandleAutoRefresh(f, MissingCredentials)
        ELSE AuthenticateStart(f, client.ApiKey, client.SecretKey)

\* A faulty variant of StoreRefreshed that also overwrites the refresh token.
StoreRefreshedBoth(client, r) ==
    [client EXCEPT !.AccessToken = r.access, !.RefreshToken = r.access]

\* RefreshAccessToken stores the response: c.AccessToken = refreshResponse.Access
StoreRefreshed(client, r) == [client EXCEPT !.AccessToken = r.access]

\* A faulty variant of StoreAuthenticated that keeps the old refresh token.
StoreAuthenticatedAccessOnly(client, r) == [client EXCEPT !.AccessToken = r.access]

\* Authenticate stores the response: both tokens.
StoreAuthenticated(client, r) ==
    [client EXCEPT !.AccessToken = r.access, !.RefreshToken = r.refresh]

\* A faulty variant of RequestFinish that sends the request again after a 401.
RequestFinishRetry(f, out) ==
    IF IsAPIError(out.err) /\ out.err[1].StatusCode = 401
    THEN [f EXCEPT !.pc = "rq_send"]
    ELSE Done(f, out.err)

\* Request after the response was handled: it returns, whatever the status.
RequestFinish(f, out) == Done(f, out.err)

\* A faulty variant of RequestStart that never enters handleAutoRefresh.
RequestStartNoRefresh(f, a, client) ==
    LET g == Call(f, "Request", "rq_send")
    IN  IF a.method = "GET" /\ a.body = "bad"
        THEN Done(g, RequestError("failed to convert struct to URL params",
                                  "preparing request parameters",
                                  External("input must be a struct")))
        ELSE IF a.method = "POST" /\ a.body = "bad"
        THEN Done(g, RequestError("failed to marshal request body",
                                  "preparing request body", External("json")))
        ELSE IF ~a.auth THEN g
        ELSE [g EXCEPT !.pc = "rq_gate"]

\* A faulty variant of RequestStart that runs the refresh check before it
\* encodes the body and forgets the encoding failure after it.
RequestStartRefreshBeforeEncoding(f, a, client) ==
    LET g == Call(f, "Request", "rq_send")
    IN  IF a.auth /\ client.AutoRefresh THEN Call(g, "handleAutoRefresh", "har_access")
        ELSE IF a.method = "GET" /\ a.body = "bad"
        THEN Done(g, RequestError("failed to convert struct to URL params",
                                  "preparing request parameters",
                                  External("input must be a struct")))
        ELSE IF a.method = "POST" /\ a.body = "bad"
        THEN Done(g, RequestError("failed to marshal request body",
                                  "preparing request body", External("json")))
        ELSE IF ~a.auth THEN g
        ELSE [g EXCEPT !.pc = "rq_gate"]

\* Request up to the authentication block: the body is encoded, the request
\* built, and with auth the refresh check entered when AutoRefresh is set.
RequestStart(f, a, client) ==
    LET g == Call(f, "Request", "rq_send")
    IN  IF a.method = "GET" /\ a.body = "bad"
        THEN Done(g, RequestError("failed to convert struct to URL params",
                                  "preparing request parameters",
                                  External("input must be a struct")))
        ELSE IF a.method = "POST" /\ a.body = "bad"
        THEN Done(g, RequestError("failed to marshal request body",
                                  "preparing request body", External("json")))
        ELSE IF ~a.auth THEN g
        ELSE IF client.AutoRefresh THEN Call(g, "handleAutoRefresh", "har_access")
        ELSE [g EXCEPT !.pc = "rq_gate"]

\* A faulty variant of RequestAfterAutoRefresh that swallows the error.
RequestAfterAutoRefreshSwallow(f) == [f EXCEPT !.pc = "rq_gate", !.err = Nil]

\* Request after handleAutoRefresh returned.
RequestAfterAutoRefresh(f) ==
    IF f.err # Nil
    THEN Done(f, GoBitpinError("failed to refresh authentication", f.err))
    ELSE [f EXCEPT !.pc = "rq_gate"]

\* Request, the credential gate.
RequestGate(f, client) ==
    LET g == [f EXCEPT !.calls = Append(@, "assertAuth")]
    IN  IF assertAuth(client) # Nil
        THEN Done(g, GoBitpinError("authentication validation failed",
                                   assertAuth(client)))
        ELSE [g EXCEPT !.pc = "rq_send"]

\* A faulty variant of RequestDo that never sets the Authorization header.
RequestDoNoAuthorization(f, a, client) ==
    Do(f, HttpRequest(a.method, createApiURI(a.endpoint, Version), NoAuthorization,
                      [NoBody EXCEPT !.params = a.body]),
       "rq_wait")

\* Request, the dispatch of the request with its headers.
RequestDo(f, a, client) ==
    Do(f, HttpRequest(a.method, createApiURI(a.endpoint, Version),
                      IF a.auth THEN Bearer(client.AccessToken) ELSE NoAuthorization,
                      [NoBody EXCEPT !.params = a.body]),
       "rq_wait")

\* NewClient after handleAutoRefresh returned.
NewClientAfterAutoRefresh(f, opts) ==
    IF f.err # Nil THEN Done(f, f.err)
    ELSE IF opts.ApiKey # "" /\ opts.SecretKey # ""
    THEN AuthenticateStart(f, opts.ApiKey, opts.SecretKey)
    ELSE Done(f, Nil)

\* What NewClient hands back once it is done: the client, or nil and an error.
Built(f) ==
    IF f.pc = "done" /\ f.stack[1] = "NewClient"
    THEN IF f.err = Nil THEN "yes" ELSE "failed"
    ELSE built

\* The caller moves to frame f.
Goto(p, f) ==
    /\ pc' = [pc EXCEPT ![p] = f.pc]
    /\ stack' = [stack EXCEPT ![p] = f.stack]
    /\ calls' = [calls EXCEPT ![p] = f.calls]
    /\ err' = [err EXCEPT ![p] = f.err]
    /\ log' = [log EXCEPT ![p] = f.log]
    /\ built' = Built(f)
    /\ UNCHANGED << input, output >>

\* The caller begins an operation with arguments a.
Begin(p, a, client) ==
    /\ arg' = [arg EXCEPT ![p] = a]
    /\ entry' = [entry EXCEPT ![p] = [client |-> client, at |-> now]]
    /\ resp' = [resp EXCEPT ![p] = NoResp]
    /\ result' = [result EXCEPT ![p] = "untouched"]

-----------------------------------------------------------------------------
(* Actions.                                                                 *)

\* No client yet, nobody in a call.
NoClient ==
    /\ c = ZeroClient
    /\ built = "no"
    /\ pc = [p \in Procs |-> IF p = "p1" THEN "idle" ELSE "off"]
    /\ stack = [p \in Procs |-> << >>]
    /\ calls = [p \in Procs |-> << >>]
    /\ arg = [p \in Procs |-> NoArg]
    /\ entry = [p \in Procs |-> NoEntry]
    /\ log = [p \in Procs |-> << >>]
    /\ resp = [p \in Procs |-> NoResp]
    /\ err = [p \in Procs |-> Nil]
    /\ result = [p \in Procs |-> "untouched"]

Init ==
    /\ now = 0
    /\ NoClient
    /\ input = NoInput
    /\ output = NoOutput

\* The wall clock advances by a second.
Tick ==
    /\ now < MaxNow
    /\ now' = now + 1
    /\ UNCHANGED << c, built, pc, stack, calls, arg, entry, log, resp, err, result,
                    input, output >>

\* NewClient(opts) up to its call of handleAutoRefresh.
NewClient(p, opts) ==
    /\ pc[p] = "idle"
    /\ built = "no"
    /\ LET client == [AccessToken |-> opts.AccessToken,
                      RefreshToken |-> opts.RefreshToken,
                      ApiKey |-> opts.ApiKey, SecretKey |-> opts.SecretKey,
                      AutoRefresh |-> opts.AutoRefresh,
                      BaseUrl |-> BaseUrl]
       IN  /\ c' = client
           /\ Begin(p, opts, client)
    /\ pc' = [pc EXCEPT ![p] = "har_access"]
    /\ stack' = [stack EXCEPT ![p] = << "NewClient", "handleAutoRefresh" >>]
    /\ calls' = [calls EXCEPT ![p] = << "NewClient", "handleAutoRefresh" >>]
    /\ err' = [err EXCEPT ![p] = Nil]
    /\ log' = [log EXCEPT ![p] = << >>]
    /\ built' = "building"
    /\ UNCHANGED << now, input, output >>

\* NewClient from the return of handleAutoRefresh on.
NewClientResume(p) ==
    /\ pc[p] = "har_ret"
    /\ Top(stack[p]) = "NewClient"
    /\ Goto(p, NewClientAfterAutoRefresh(Frame(p), arg[p]))
    /\ UNCHANGED << now, c, arg, entry, resp, result >>

\* handleAutoRefresh, lines 259-270 up to the call of RefreshAccessToken.
CheckAccessToken(p) ==
    /\ pc[p] = "har_access"
    /\ Goto(p, handleAutoRefreshAccess(Frame(p), c, now))
    /\ UNCHANGED << now, c, arg, entry, resp, result >>

\* handleAutoRefresh, lines 272-293 up to the request of Authenticate.
CheckRefreshToken(p) ==
    /\ pc[p] = "har_refresh"
    /\ Goto(p, handleAutoRefreshRefresh(Frame(p), c, now))
    /\ UNCHANGED << now, c, arg, entry, resp, result >>

\* The caller invokes RefreshAccessToken.
RefreshAccessToken(p) ==
    /\ pc[p] = "idle"
    /\ built = "yes"
    /\ Goto(p, Call(NewFrame, "RefreshAccessToken", "rf_send"))
    /\ Begin(p, NoArg, c)
    /\ UNCHANGED << now, c >>

\* RefreshAccessToken reads the refresh token and sends its request.
RefreshSend(p) ==
    /\ pc[p] = "rf_send"
    /\ Goto(p, Do(Frame(p),
                  HttpRequest("POST", createApiURI("/usr/refresh_token/", Version),
                              NoAuthorization,
                              [NoBody EXCEPT !.refresh = c.RefreshToken]),
                  "rf_wait"))
    /\ UNCHANGED << now, c, arg, entry, resp, result >>

\* A variant of RefreshReceive that stores the access token only while the
\* refresh token is still the one its request carried.
RefreshReceiveIfUnchanged(p, r) ==
    /\ pc[p] = "rf_wait"
    /\ LET out == RequestOutcome(r, TRUE)
           sent == log[p][Len(log[p])].body.refresh
       IN  /\ c' = IF out.err = Nil /\ c.RefreshToken = sent
                   THEN StoreRefreshed(c, r) ELSE c
           /\ Goto(p, ReturnFromRefresh(Frame(p), out.err))
    /\ resp' = [resp EXCEPT ![p] = r]
    /\ UNCHANGED << now, arg, entry, result >>

\* RefreshAccessToken receives the response and stores the access token.
RefreshReceive(p, r) ==
    /\ pc[p] = "rf_wait"
    /\ LET out == RequestOutcome(r, TRUE)
       IN  /\ c' = IF out.err = Nil THEN StoreRefreshed(c, r) ELSE c
           /\ Goto(p, ReturnFromRefresh(Frame(p), out.err))
    /\ resp' = [resp EXCEPT ![p] = r]
    /\ UNCHANGED << now, arg, entry, result >>

\* The caller invokes Authenticate(apiKey, secretKey).
Authenticate(p, apiKey, secretKey) ==
    /\ pc[p] = "idle"
    /\ built = "yes"
    /\ Goto(p, AuthenticateStart(NewFrame, apiKey, secretKey))
    /\ Begin(p, [ApiKey |-> apiKey, SecretKey |-> secretKey], c)
    /\ UNCHANGED << now, c >>

\* A faulty variant of AuthenticateReceive that stores the tokens of the
\* response whatever the outcome.
AuthenticateReceiveStoresOnFailure(p, r) ==
    /\ pc[p] = "au_wait"
    /\ LET out == RequestOutcome(r, TRUE)
       IN  /\ c' = StoreAuthenticated(c, r)
           /\ Goto(p, ReturnFromAuthenticate(Frame(p), out.err))
    /\ resp' = [resp EXCEPT ![p] = r]
    /\ UNCHANGED << now, arg, entry, result >>

\* A faulty variant of AuthenticateReceive in which an Authenticate the caller
\* invoked also keeps the keys it was given.
AuthenticateReceiveStoresKeys(p, r) ==
    /\ pc[p] = "au_wait"
    /\ LET out == RequestOutcome(r, TRUE)
           stored == StoreAuthenticated(c, r)
       IN  /\ c' = IF out.err # Nil THEN c
                   ELSE IF stack[p][1] = "Authenticate"
                   THEN [stored EXCEPT !.ApiKey = arg[p].ApiKey,
                                       !.SecretKey = arg[p].SecretKey]
                   ELSE stored
           /\ Goto(p, ReturnFromAuthenticate(Frame(p), out.err))
    /\ resp' = [resp EXCEPT ![p] = r]
    /\ UNCHANGED << now, arg, entry, result >>

\* Authenticate receives the response and stores both tokens.
AuthenticateReceive(p, r) ==
    /\ pc[p] = "au_wait"
    /\ LET out == RequestOutcome(r, TRUE)
       IN  /\ c' = IF out.err = Nil THEN StoreAuthenticated(c, r) ELSE c
           /\ Goto(p, ReturnFromAuthenticate(Frame(p), out.err))
    /\ resp' = [resp EXCEPT ![p] = r]
    /\ UNCHANGED << now, arg, entry, result >>

\* The caller invokes Request(method, url, auth, body, result).
Request(p, a) ==
    /\ pc[p] = "idle"
    /\ built = "yes"
    /\ Goto(p, RequestStart(NewFrame, a, c))
    /\ Begin(p, a, c)
    /\ UNCHANGED << now, c >>

\* Request from the return of handleAutoRefresh on.
RequestResume(p) ==
    /\ pc[p] = "har_ret"
    /\ Top(stack[p]) = "Request"
    /\ Goto(p, RequestAfterAutoRefresh(Frame(p)))
    /\ UNCHANGED << now, c, arg, entry, resp, result >>

\* Request checks the tokens with assertAuth.
RequestAssertAuth(p) ==
    /\ pc[p] = "rq_gate"
    /\ Goto(p, RequestGate(Frame(p), c))
    /\ UNCHANGED << now, c, arg, entry, resp, result >>

\* Request sets the headers and sends.
RequestSend(p) ==
    /\ pc[p] = "rq_send"
    /\ Goto(p, RequestDo(Frame(p), arg[p], c))
    /\ UNCHANGED << now, c, arg, entry, resp, result >>

\* Request receives the response.
RequestReceive(p, r) ==
    /\ pc[p] = "rq_wait"
    /\ LET out == RequestOutcome(r, arg[p].hasResult)
       IN  /\ Goto(p, RequestFinish(Frame(p), out))
           /\ result' = [result EXCEPT ![p] = out.result]
    /\ resp' = [resp EXCEPT ![p] = r]
    /\ UNCHANGED << now, c, arg, entry >>

\* The operation has returned; the caller is free for the next one.  A client
\* NewClient did not return is gone.
Return(p) ==
    /\ pc[p] = "done"
    /\ pc' = [pc EXCEPT ![p] = "idle"]
    /\ stack' = [stack EXCEPT ![p] = << >>]
    /\ calls' = [calls EXCEPT ![p] = << >>]
    /\ err' = [err EXCEPT ![p] = Nil]
    /\ log' = [log EXCEPT ![p] = << >>]
    /\ arg' = [arg EXCEPT ![p] = NoArg]
    /\ entry' = [entry EXCEPT ![p] = NoEntry]
    /\ resp' = [resp EXCEPT ![p] = NoResp]
    /\ result' = [result EXCEPT ![p] = "untouched"]
    /\ built' = IF built = "failed" THEN "no" ELSE built
    /\ c' = IF built = "failed" THEN ZeroClient ELSE c
    /\ UNCHANGED << now, input, output >>

Next ==
    \/ Tick
    \/ \E p \in Procs, opts \in Options : NewClient(p, opts)
    \/ \E p \in Procs : NewClientResume(p)
    \/ \E p \in Procs : CheckAccessToken(p)
    \/ \E p \in Procs : CheckRefreshToken(p)
    \/ \E p \in Procs : RefreshAccessToken(p)
    \/ \E p \in Procs : RefreshSend(p)
    \/ \E p \in Procs, r \in Responses("/usr/refresh_token/") : RefreshReceive(p, r)
    \/ \E p \in Procs, k \in ApiKeys, s \in SecretKeys : Authenticate(p, k, s)
    \/ \E p \in Procs, r \in Responses("/usr/authenticate/") : AuthenticateReceive(p, r)
    \/ \E p \in Procs, a \in RequestArgs : Request(p, a)
    \/ \E p \in Procs : RequestResume(p)
    \/ \E p \in Procs : RequestAssertAuth(p)
    \/ \E p \in Procs : RequestSend(p)
    \/ \E p \in Procs, r \in Responses("/odr/orders/") : RequestReceive(p, r)
    \/ \E p \in Procs : Return(p)

Spec == Init /\ [][Next]_vars

-----------------------------------------------------------------------------
(* Vocabulary of the properties.                                            *)

\* The token decodes and its exp lies before second t.
ExpiredAt(tok, t) == DecodeJWT(tok).err = Nil /\ IsExpired(DecodeJWT(tok).jwt, t)

\* The token decodes and its exp does not lie before second t.
UnexpiredAt(tok, t) == DecodeJWT(tok).err = Nil /\ ~IsExpired(DecodeJWT(tok).jwt, t)

\* The endpoints of the requests in a log.
Endpoints(lg) == [i \in 1 .. Len(lg) |-> lg[i].url[3]]

RefreshURL == createApiURI("/usr/refresh_token/", Version)

AuthenticateURL == createApiURI("/usr/authenticate/", Version)

\* Procedure name was entered by caller p's operation.
Entered(p, name) == \E i \in 1 .. Len(calls[p]) : calls[p][i] = name

\* handleAutoRefresh has just returned to caller p's NewClient or Request; the
\* requests in log[p] are those it issued, err[p] is what it returned.
AutoRefreshReturned(p) == pc[p] = "har_ret"

\* Both tokens were expired when caller p's operation began.
BothExpiredAtEntry(p) ==
    /\ ExpiredAt(entry[p].client.AccessToken, entry[p].at)
    /\ ExpiredAt(entry[p].client.RefreshToken, entry[p].at)

-----------------------------------------------------------------------------
(* Properties.                                                              *)

\* C1: when handleAutoRefresh runs with both tokens expired and both keys set,
\* Authenticate is invoked, and when it succeeds both tokens are those of its
\* response.  The code refreshes first, with the expired refresh token, and
\* returns the error of that request without reaching Authenticate.
C1_ReauthenticatesWhenBothExpired ==
    \A p \in Procs :
        ( /\ AutoRefreshReturned(p)
          /\ BothExpiredAtEntry(p)
          /\ c.ApiKey # "" /\ c.SecretKey # "" )
        => /\ Entered(p, "Authenticate")
           /\ err[p] = Nil => /\ c.AccessToken = resp[p].access
                              /\ c.RefreshToken = resp[p].refresh

\* C2: when handleAutoRefresh runs with both tokens expired and a key missing,
\* it returns the missing-credentials error and no request was issued.  The
\* code issues the refresh request before it looks at the keys.
C2_MissingCredentialsWithoutRequest ==
    \A p \in Procs :
        ( /\ AutoRefreshReturned(p)
          /\ BothExpiredAtEntry(p)
          /\ (c.ApiKey = "" \/ c.SecretKey = "") )
        => /\ err[p] = MissingCredentials
           /\ log[p] = << >>

\* The case of C3: the access token was expired when the operation began and
\* the refresh token it began with is still unexpired.
C3_Case(p) ==
    /\ AutoRefreshReturned(p)
    /\ ExpiredAt(entry[p].client.AccessToken, entry[p].at)
    /\ UnexpiredAt(entry[p].client.RefreshToken, now)

\* C3: when handleAutoRefresh runs with an expired access token and an
\* unexpired refresh token, it issues exactly one request, the refresh, and no
\* authenticate; when it succeeds the access token is the one of the response
\* and the refresh token is the one it began with.
C3_OnlyRefresh ==
    \A p \in Procs :
        C3_Case(p)
        => /\ Len(log[p]) = 1
           /\ log[p][1].url = RefreshURL
           /\ log[p][1].method = "POST"
           /\ ~Entered(p, "Authenticate")
           /\ err[p] = Nil => /\ c.AccessToken = resp[p].access
                              /\ c.RefreshToken = entry[p].client.RefreshToken

\* C3 happens: a refresh that replaced the access token by another one.
C3_Witness ==
    \E p \in Procs :
        /\ C3_Case(p)
        /\ err[p] = Nil
        /\ c.AccessToken # entry[p].client.AccessToken
        /\ c.AccessToken = resp[p].access

\* Caller p's operation is a Request with auth = true.
AuthenticatedRequest(p) ==
    /\ stack[p] # << >>
    /\ stack[p][1] = "Request"
    /\ arg[p].auth

\* The requests of caller p's Request other than refresh and authenticate.
MainRequests(p) ==
    {i \in 1 .. Len(log[p]) : log[p][i].url \notin {RefreshURL, AuthenticateURL}}

\* In caller p's authenticated Request handleAutoRefresh was entered before
\* assertAuth, and ran before the request itself was sent; and when the access
\* token was expired as the call began, a refresh request went out before the
\* request itself.
FreshnessCheckedFirst(p) ==
    /\ \A i \in 1 .. Len(calls[p]) :
          calls[p][i] = "assertAuth"
          => \E j \in 1 .. (i - 1) : calls[p][j] = "handleAutoRefresh"
    /\ MainRequests(p) # {} => Entered(p, "handleAutoRefresh")
    /\ \A i \in MainRequests(p) :
          ExpiredAt(entry[p].client.AccessToken, entry[p].at)
          => \E j \in 1 .. (i - 1) : log[p][j].url = RefreshURL

\* C4 as claimed: every authenticated Request runs handleAutoRefresh before the
\* gate and the dispatch, whatever the client's configuration.
C4_FreshnessAlwaysChecked ==
    \A p \in Procs :
        (AuthenticatedRequest(p) /\ pc[p] \in {"rq_send", "rq_wait", "done"})
        => FreshnessCheckedFirst(p)

\* C4 as amended: every authenticated Request on a client whose AutoRefresh is
\* set runs handleAutoRefresh before the gate and the dispatch, and so never
\* sends a token that was expired as the call began without a refresh first.
C4_FreshnessCheckedWithAutoRefresh ==
    \A p \in Procs :
        ( /\ AuthenticatedRequest(p)
          /\ pc[p] \in {"rq_send", "rq_wait", "done"}
          /\ c.AutoRefresh )
        => FreshnessCheckedFirst(p)

\* C4 happens: an authenticated request went out after its expired access
\* token was refreshed.
C4_Witness ==
    \E p \in Procs :
        /\ AuthenticatedRequest(p)
        /\ c.AutoRefresh
        /\ ExpiredAt(entry[p].client.AccessToken, entry[p].at)
        /\ pc[p] = "rq_wait"
        /\ MainRequests(p) = {2}
        /\ log[p][1].url = RefreshURL

\* Caller p's operation is NewClient.
Constructing(p) == stack[p] # << >> /\ stack[p][1] = "NewClient"

\* C5: NewClient with AutoRefresh = false decodes no token and issues no
\* refresh request.  The code calls handleAutoRefresh whatever the option says.
C5_NoRefreshAtConstructionWithoutAutoRefresh ==
    \A p \in Procs :
        (Constructing(p) /\ ~arg[p].AutoRefresh)
        => /\ ~Entered(p, "RefreshAccessToken")
           /\ \A i \in 1 .. Len(log[p]) : log[p][i].url # RefreshURL
           /\ err[p] \notin {DecodeJWT(t).err : t \in Tokens \ {Jwt(e) : e \in Exps}}

\* C6: NewClient with AutoAuth = false, or with an unexpired token pair, issues
\* no authenticate request and returns a client holding the supplied tokens.
\* The code never reads AutoAuth: it authenticates whenever both keys are given.
C6_AutoAuthOnlyWhenAskedAndNeeded ==
    \A p \in Procs :
        ( /\ Constructing(p)
          /\ \/ ~arg[p].AutoAuth
             \/ /\ UnexpiredAt(arg[p].AccessToken, now)
                /\ UnexpiredAt(arg[p].RefreshToken, now) )
        => /\ \A i \in 1 .. Len(log[p]) : log[p][i].url # AuthenticateURL
           /\ (pc[p] = "done" /\ built = "yes")
              => /\ c.AccessToken = arg[p].AccessToken
                 /\ c.RefreshToken = arg[p].RefreshToken

\* Caller p's operation has returned and the last thing it did was to handle
\* the response resp[p] to the last request of its log.
Answered(p) == pc[p] = "done" /\ log[p] # << >> /\ resp[p].kind = "http"

\* Caller p's Request has returned after the response to the request itself.
MainAnswered(p) ==
    /\ Answered(p)
    /\ stack[p] = << "Request" >>
    /\ Len(log[p]) \in MainRequests(p)

\* C7: a response whose status is outside [200,300) makes the Request return
\* the APIError of parseErrorResponse, with that status, and leaves the decode
\* target unwritten; a status inside [200,300) never yields an APIError.  The
\* requests of Authenticate and RefreshAccessToken go the same way.
C7_ErrorStatusShortCircuits ==
    \A p \in Procs :
        /\ MainAnswered(p)
           => IF resp[p].status < 200 \/ resp[p].status >= 300
              THEN /\ err[p] = parseErrorResponse(resp[p].status, resp[p].body)
                   /\ Len(err[p]) = 1
                   /\ err[p][1].type = "APIError"
                   /\ err[p][1].StatusCode = resp[p].status
                   /\ result[p] = "untouched"
              ELSE ~IsAPIError(err[p])
        /\ (Answered(p) /\ stack[p] \in {<< "Authenticate" >>, << "RefreshAccessToken" >>})
           => IF resp[p].status < 200 \/ resp[p].status >= 300
              THEN /\ Len(err[p]) = 1
                   /\ err[p][1].type = "APIError"
                   /\ err[p][1].StatusCode = resp[p].status
                   /\ c = entry[p].client
              ELSE ~IsAPIError(err[p])

\* C7 happens: a Request with a decode target was answered 300.
C7_Witness ==
    \E p \in Procs :
        /\ MainAnswered(p)
        /\ arg[p].hasResult
        /\ resp[p].status = 300
        /\ err[p][1].StatusCode = 300
        /\ result[p] = "untouched"

\* C8: one Request sends its own request at most once and nothing after it; a
\* 401 or 429 answer comes back as the normalized error, the tokens being
\* those the request was sent with.
C8_NoRetry ==
    \A p \in Procs :
        (stack[p] # << >> /\ stack[p][1] = "Request")
        => /\ Cardinality(MainRequests(p)) <= 1
           /\ MainRequests(p) \subseteq {Len(log[p])}
           /\ (MainAnswered(p) /\ resp[p].status \in {401, 429})
              => /\ err[p] = parseErrorResponse(resp[p].status, resp[p].body)
                 /\ err[p][1].StatusCode = resp[p].status
                 /\ arg[p].auth
                    => c.AccessToken = log[p][Len(log[p])].Authorization.bearer

\* C8 happens: an authenticated Request whose token had just been refreshed
\* was answered 401.
C8_Witness ==
    \E p \in Procs :
        /\ MainAnswered(p)
        /\ arg[p].auth
        /\ Len(log[p]) = 2
        /\ log[p][1].url = RefreshURL
        /\ resp[p].status = 401
        /\ IsAPIError(err[p])

\* The error Request returns when assertAuth returns e.
GateError(e) == GoBitpinError("authentication validation failed", e)

\* C9: assertAuth answers "access token is empty" whenever the access token is
\* empty, "refresh token is empty" when only the refresh token is, and nil
\* exactly when both are set, whatever the tokens look like; the step that
\* runs it leaves the client as it was.
C9_AssertAuth ==
    [][ \A p \in Procs :
          (pc[p] = "rq_gate" /\ pc'[p] # "rq_gate")
          => /\ c' = c
             /\ c.AccessToken = Empty
                => /\ assertAuth(c) = GoBitpinError("access token is empty", Nil)
                   /\ pc'[p] = "done"
                   /\ err'[p] = GateError(GoBitpinError("access token is empty", Nil))
             /\ (c.AccessToken # Empty /\ c.RefreshToken = Empty)
                => /\ assertAuth(c) = GoBitpinError("refresh token is empty", Nil)
                   /\ pc'[p] = "done"
                   /\ err'[p] = GateError(GoBitpinError("refresh token is empty", Nil))
             /\ (c.AccessToken # Empty /\ c.RefreshToken # Empty)
                <=> assertAuth(c) = Nil
             /\ assertAuth(c) = Nil <=> pc'[p] = "rq_send"
      ]_vars

\* C9 happens: the gate turned away a client whose refresh token is empty and
\* whose access token is no JWT at all.
C9_Witness ==
    \E p \in Procs :
        /\ pc[p] = "done"
        /\ AuthenticatedRequest(p)
        /\ err[p] = GateError(GoBitpinError("refresh token is empty", Nil))
        /\ c.AccessToken = Garbage
        /\ c.RefreshToken = Empty

\* C10: Authenticate with an empty argument returns the missing-credentials
\* error and sends nothing; otherwise it sends exactly one POST to
\* /usr/authenticate/, on success both tokens are those of the response, and
\* on failure both are what they were.
C10_Authenticate ==
    \A p \in Procs :
        (stack[p] = << "Authenticate" >> /\ pc[p] \in {"au_wait", "done"})
        => IF arg[p].ApiKey = "" \/ arg[p].SecretKey = ""
           THEN /\ pc[p] = "done"
                /\ err[p] = MissingCredentials
                /\ log[p] = << >>
                /\ c = entry[p].client
           ELSE /\ Len(log[p]) = 1
                /\ log[p][1].method = "POST"
                /\ log[p][1].url = << "/api/", "v1", "/usr/authenticate/" >>
                /\ log[p][1].body.api_key = arg[p].ApiKey
                /\ log[p][1].body.secret_key = arg[p].SecretKey
                /\ pc[p] = "au_wait" => c = entry[p].client
                /\ (pc[p] = "done" /\ err[p] = Nil)
                   => c = [entry[p].client EXCEPT !.AccessToken = resp[p].access,
                                                  !.RefreshToken = resp[p].refresh]
                /\ (pc[p] = "done" /\ err[p] # Nil) => c = entry[p].client

\* C10 happens: an Authenticate that replaced both tokens.
C10_Witness ==
    \E p \in Procs :
        /\ stack[p] = << "Authenticate" >>
        /\ pc[p] = "done"
        /\ err[p] = Nil
        /\ c.AccessToken # entry[p].client.AccessToken
        /\ c.RefreshToken # entry[p].client.RefreshToken
        /\ c.AccessToken = resp[p].access
        /\ c.RefreshToken = resp[p].refresh

\* Caller p called RefreshAccessToken itself and the request is out.
Refreshing(p) ==
    stack[p] = << "RefreshAccessToken" >> /\ pc[p] \in {"rf_wait", "done"}

\* C11: RefreshAccessToken sends exactly one request, the refresh, carrying the
\* refresh token the client held when it was called; when it succeeds only
\* AccessToken changes, to the response's access value; when the request fails
\* it returns the error of the request and the client is as it was.
C11_RefreshAccessToken ==
    \A p \in Procs :
        Refreshing(p)
        => /\ Len(log[p]) = 1
           /\ log[p][1].method = "POST"
           /\ log[p][1].url = RefreshURL
           /\ log[p][1].body.refresh = entry[p].client.RefreshToken
           /\ pc[p] = "rf_wait" => c = entry[p].client
           /\ pc[p] = "done"
              => /\ err[p] = RequestOutcome(resp[p], TRUE).err
                 /\ err[p] = Nil
                    => c = [entry[p].client EXCEPT !.AccessToken = resp[p].access]
                 /\ err[p] # Nil => c = entry[p].client
                 /\ resp[p].kind = "transport"
                    => /\ err[p] # Nil
                       /\ err[p][Len(err[p])] = External("transport")[1]
                 /\ (resp[p].kind = "http" /\ resp[p].status >= 300)
                    => err[p] = parseErrorResponse(resp[p].status, resp[p].body)

\* C11 happens: a RefreshAccessToken that put a new access token beside a
\* refresh token and keys that stayed.
C11_Witness ==
    \E p \in Procs :
        /\ Refreshing(p)
        /\ pc[p] = "done"
        /\ err[p] = Nil
        /\ c.AccessToken # entry[p].client.AccessToken
        /\ c.RefreshToken = Jwt(1)
        /\ c.ApiKey = "k"

\* Caller p's operation is a Request whose body does not encode.
EncodingFails(p) ==
    /\ stack[p] # << >>
    /\ stack[p][1] = "Request"
    /\ arg[p].body = "bad"

\* C12: a Request whose body does not encode returns a RequestError naming the
\* preparation step, has handed nothing to HttpClient.Do, has entered neither
\* handleAutoRefresh nor assertAuth, and leaves the client as it was.
C12_EncodingFailureBeforeIO ==
    \A p \in Procs :
        EncodingFails(p)
        => /\ pc[p] = "done"
           /\ err[p] # Nil
           /\ err[p][1].type = "RequestError"
           /\ err[p][1].Operation
                 = IF arg[p].method = "GET" THEN "preparing request parameters"
                   ELSE "preparing request body"
           /\ log[p] = << >>
           /\ calls[p] = << "Request" >>
           /\ resp[p] = NoResp
           /\ c = entry[p].client

\* C12 happens: the body of an authenticated POST did not encode on a client
\* with AutoRefresh whose access token is expired.
C12_Witness ==
    \E p \in Procs :
        /\ EncodingFails(p)
        /\ pc[p] = "done"
        /\ arg[p].method = "POST"
        /\ arg[p].auth
        /\ c.AutoRefresh
        /\ ExpiredAt(c.AccessToken, now)
        /\ err[p][1].type = "RequestError"

\* The errors handleAutoRefresh can return: a decode failure, the error of the
\* refresh or the authenticate request, the missing-credentials error.
AutoRefreshErrors ==
    {DecodeJWT(Garbage).err, MissingCredentials}
    \cup {RequestOutcome(r, TRUE).err : r \in Responses("/usr/authenticate/")}

\* C13: when handleAutoRefresh or assertAuth fails in an authenticated Request,
\* the Request returns at once an error that wraps the one they returned, and
\* the request itself has not been and is not sent.
C13_AuthFailureStopsRequest ==
    [][ \A p \in Procs :
          (AuthenticatedRequest(p) /\ pc'[p] # pc[p])
          => /\ (pc[p] = "har_ret" /\ err[p] # Nil)
                => /\ err[p] \in AutoRefreshErrors
                   /\ pc'[p] = "done"
                   /\ err'[p] = GoBitpinError("failed to refresh authentication", err[p])
                   /\ MainRequests(p) = {}
                   /\ log'[p] = log[p]
             /\ (pc[p] = "rq_gate" /\ assertAuth(c) # Nil)
                => /\ pc'[p] = "done"
                   /\ err'[p] = GoBitpinError("authentication validation failed",
                                              assertAuth(c))
                   /\ MainRequests(p) = {}
                   /\ log'[p] = log[p]
             /\ pc'[p] = "rq_wait"
                => /\ pc[p] = "rq_send"
                   /\ assertAuth(c) = Nil
                   /\ err[p] = Nil
      ]_vars

\* C13 happens: an authenticated Request on a client whose access token is no
\* JWT returned the wrapped decode failure and sent nothing.
C13_Witness ==
    \E p \in Procs :
        /\ AuthenticatedRequest(p)
        /\ pc[p] = "done"
        /\ c.AccessToken = Garbage
        /\ err[p] = GoBitpinError("failed to refresh authentication",
                                  DecodeJWT(Garbage).err)
        /\ log[p] = << >>

-----------------------------------------------------------------------------
(* parseErrorResponse called on its own, on every body of a bounded set.    *)

\* The most members an object of Bodies has.
MaxMembers == 2

MemberKeys == {"field", "detail", "code", "messages"}

MemberValues ==
    {JStr("err"), JList(<< >>), JList(<< "err1", "err2" >>), JNum, JNull,
     JMap([f \in {"field"} |-> << "m" >>])}

\* The JSON objects with at most MaxMembers members.
Objects ==
    UNION {[K -> MemberValues] :
              K \in {S \in SUBSET MemberKeys : Cardinality(S) <= MaxMembers}}

\* The bodies: bytes that are no JSON, null, a string, a number, the objects.
Bodies ==
    {NotJson("oops"), JsonNull, JsonScalar("\"oops\""), JsonScalar("42")}
    \cup {JObject(ToString(m), m) : m \in Objects}

InitNormalizer ==
    /\ now = 0
    /\ NoClient
    /\ input \in [fn : {"parseErrorResponse"}, statusCode : Statuses, respBody : Bodies]
    /\ output = NoOutput

\* parseErrorResponse(statusCode, respBody)
ParseErrorResponse ==
    /\ input.fn = "parseErrorResponse"
    /\ ~output.set
    /\ output' = Returned(parseErrorResponse(input.statusCode, input.respBody))
    /\ UNCHANGED << now, c, built, pc, stack, calls, arg, entry, log, resp, err,
                    result, input >>

NextNormalizer == ParseErrorResponse

SpecNormalizer == InitNormalizer /\ [][NextNormalizer]_vars

\* The body is a JSON object with exactly the members m.
IsObject(b, m) == b.json = "object" /\ b.m = m

\* The Details of the error returned.
Details == output.value[1].Details

\* C14: parseErrorResponse always returns an APIError with the status it was
\* given; its Details are those of the first of the shapes field -> list,
\* field -> string, {detail, code, messages} that the body unmarshals into,
\* and exactly {"raw": [body]} when it unmarshals into none.
C14_ShapesInOrder ==
    output.set
    => LET b == input.respBody
       IN  /\ Len(output.value) = 1
           /\ output.value[1].type = "APIError"
           /\ output.value[1].StatusCode = input.statusCode
           /\ UnmarshalListMap(b).ok => Details = UnmarshalListMap(b).details
           /\ (~UnmarshalListMap(b).ok /\ UnmarshalStringMap(b).ok)
              => Details = UnmarshalStringMap(b).details
           /\ ( /\ ~UnmarshalListMap(b).ok
                /\ ~UnmarshalStringMap(b).ok
                /\ UnmarshalErrorResponse(b).ok )
              => Details = UnmarshalErrorResponse(b).details
           /\ ( /\ ~UnmarshalListMap(b).ok
                /\ ~UnmarshalStringMap(b).ok
                /\ ~UnmarshalErrorResponse(b).ok )
              <=> Details = [f \in {"raw"} |-> << b.text >>]
           /\ IsObject(b, [f \in {"field"} |-> JList(<< "err1", "err2" >>)])
              => Details = [f \in {"field"} |-> << "err1", "err2" >>]
           /\ IsObject(b, [f \in {"field"} |-> JStr("err")])
              => Details = [f \in {"field"} |-> << "err" >>]
           /\ IsObject(b, [f \in {"detail", "code"} |-> JStr("err")])
              => Details = [f \in {"detail", "code"} |-> << "err" >>]
           /\ IsObject(b, [f \in {"detail", "field"} |-> JStr("err")])
              => Details = [f \in {"detail", "field"} |-> << "err" >>]
           /\ b = NotJson("oops") => Details = [f \in {"raw"} |-> << "oops" >>]

\* C14 happens: a body that only the structured shape takes, one that nothing
\* takes, was normalized.
C14_Witness ==
    /\ output.set
    /\ \/ /\ IsObject(input.respBody,
                      [f \in {"detail", "messages"} |->
                          IF f = "detail" THEN JStr("err")
                          ELSE JMap([g \in {"field"} |-> << "m" >>])])
          /\ Details = [f \in {"detail", "field"} |->
                           IF f = "detail" THEN << "err" >> ELSE << "m" >>]
       \/ /\ IsObject(input.respBody, [f \in {"detail"} |-> JNum])
          /\ Details = [f \in {"raw"} |-> << input.respBody.text >>]

\* The fragments of the Message of the error returned.
Summary == output.value[1].Summary

\* The body unmarshals into none of the three shapes.
IsRaw(b) ==
    /\ ~UnmarshalListMap(b).ok
    /\ ~UnmarshalStringMap(b).ok
    /\ ~UnmarshalErrorResponse(b).ok

\* C15 as claimed: the Message holds one "field: first-message" fragment for
\* every entry of Details, whatever the shape.
C15_FragmentForEveryEntry ==
    output.set
    => /\ \A f \in DOMAIN Details :
             Len(Details[f]) > 0 /\ << f, Details[f][1] >> \in Summary
       /\ \A fr \in Summary : Len(fr) = 2 /\ fr[1] \in DOMAIN Details

\* C15 as amended: for a body that unmarshals into one of the three shapes the
\* Message holds one "field: first-message" fragment for every entry of
\* Details that has a message, and nothing else; in the raw fallback it holds
\* the body and no "raw: " fragment.
C15_FragmentForEveryMessage ==
    output.set
    => IF IsRaw(input.respBody)
       THEN Summary = {<< input.respBody.text >>}
       ELSE /\ \A f \in DOMAIN Details :
                  Len(Details[f]) > 0 => << f, Details[f][1] >> \in Summary
            /\ \A fr \in Summary :
                  /\ Len(fr) = 2
                  /\ fr[1] \in DOMAIN Details
                  /\ Len(Details[fr[1]]) > 0
                  /\ fr[2] = Details[fr[1]][1]

\* C15 happens: Details with one entry of two messages and one entry of none.
C15_Witness ==
    /\ output.set
    /\ Details = [f \in {"field", "code"} |->
                     IF f = "field" THEN << "err1", "err2" >> ELSE << >>]
    /\ Summary = {<< "field", "err1" >>}

-----------------------------------------------------------------------------
(* StructToURLParams called on its own.  A struct is the sequence of its    *)
(* fields in declaration order, each with its whole `json` tag, its kind    *)
(* and its value.                                                           *)

\* The most fields a struct of Structs has.
MaxFields == 4

Field(tag, kind, v) == [tag |-> tag, kind |-> kind, v |-> v]

\* The fields: those of the documentation's MyStruct, a boolean filter, the
\* Assets field of GetWalletParams, an ignored field; each zero and not.
Fields ==
    {Field("name", "string", << s >>) : s \in {"", "John"}}
    \cup {Field("age", "int", << n >>) : n \in {0, 30}}
    \cup {Field("tags", "slice", l) : l \in {<< >>, << "golang", "developer" >>}}
    \cup {Field("is_admin", "bool", << b >>) : b \in BOOLEAN}
    \cup {Field("active", "bool", << b >>) : b \in BOOLEAN}
    \cup {Field("assets,omitempty", "slice", l) : l \in {<< >>, << "BTC", "ETH" >>}}
    \cup {Field("-", "string", << "x" >>)}

\* The structs: no tag twice, at most MaxFields fields.
Structs ==
    {st \in UNION {[1 .. n -> Fields] : n \in 0 .. MaxFields} :
        \A i, j \in 1 .. Len(st) : st[i].tag = st[j].tag => i = j}

\* reflect.Value.IsZero: "", 0, false, a nil slice.
IsZero(f) ==
    CASE f.kind = "string" -> f.v[1] = ""
      [] f.kind = "int" -> f.v[1] = 0
      [] f.kind = "bool" -> f.v[1] = FALSE
      [] f.kind = "slice" -> f.v = << >>

\* strconv.FormatBool
FormatBool(b) == IF b THEN "true" ELSE "false"

\* strconv.FormatInt(n, 10)
FormatInt(n) == ToString(n)

\* The values.Add calls the loop body makes for one field, in order.
Adds(f) ==
    IF f.tag = "" \/ f.tag = "-" THEN << >>
    ELSE IF IsZero(f) THEN << >>
    ELSE CASE f.kind = "slice" -> [j \in 1 .. Len(f.v) |-> << f.tag, f.v[j] >>]
           [] f.kind = "int" -> IF f.v[1] # 0 THEN << << f.tag, FormatInt(f.v[1]) >> >>
                                ELSE << >>
           [] f.kind = "bool" -> << << f.tag, FormatBool(f.v[1]) >> >>
           [] OTHER -> IF f.v[1] # "" THEN << << f.tag, f.v[1] >> >> ELSE << >>

\* The values.Add calls of the whole loop.
RECURSIVE AllAdds(_)
AllAdds(st) ==
    IF st = << >> THEN << >>
    ELSE AllAdds(SubSeq(st, 1, Len(st) - 1)) \o Adds(st[Len(st)])

\* The place of a key among the keys in byte order, as sort.Strings orders.
KeyRank(k) ==
    CASE k = "-" -> 0
      [] k = "active" -> 1
      [] k = "age" -> 2
      [] k = "assets,omitempty" -> 3
      [] k = "is_admin" -> 4
      [] k = "name" -> 5
      [] k = "tags" -> 6

\* url.QueryEscape on the keys and values of Fields: only the comma changes.
QueryEscape(x) == IF x = "assets,omitempty" THEN "assets%2Comitempty" ELSE x

\* url.Values.Encode: keys sorted, each key's values in the order added, every
\* pair escaped.  The "&"-joined text is kept as the sequence of its pairs.
Encode(adds) ==
    LET ranks == {KeyRank(adds[i][1]) : i \in 1 .. Len(adds)}
        OfKey(r) == SelectSeq(adds, LAMBDA a : KeyRank(a[1]) = r)
        Upto[r \in -1 .. 6] ==
            IF r = -1 THEN << >>
            ELSE Upto[r - 1] \o (IF r \in ranks THEN OfKey(r) ELSE << >>)
    IN  [i \in 1 .. Len(adds) |->
            << QueryEscape(Upto[6][i][1]), QueryEscape(Upto[6][i][2]) >>]

\* StructToURLParams on a struct.
StructToURLParams(st) == Encode(AllAdds(st))

InitParams ==
    /\ now = 0
    /\ NoClient
    /\ input \in [fn : {"StructToURLParams"}, inputStruct : Structs]
    /\ output = NoOutput

\* StructToURLParams(inputStruct)
CallStructToURLParams ==
    /\ input.fn = "StructToURLParams"
    /\ ~output.set
    /\ output' = Returned(StructToURLParams(input.inputStruct))
    /\ UNCHANGED << now, c, built, pc, stack, calls, arg, entry, log, resp, err,
                    result, input >>

NextParams == CallStructToURLParams

SpecParams == InitParams /\ [][NextParams]_vars
\* The query string returned, as the sequence of its key=value pairs.
Query == output.value

\* The fields of the input that carry a usable tag.
Tagged ==
    {i \in 1 .. Len(input.inputStruct) : input.inputStruct[i].tag \notin {"", "-"}}

\* The name part of a `json` tag: the tag up to its first comma.
JsonName(tag) == IF tag = "assets,omitempty" THEN "assets" ELSE tag

\* C16: StructToURLParams leaves out empty strings, zero numbers and nil
\* slices but emits every boolean field, false included; name = "", age = 0,
\* active = false encodes as exactly active=false.  The code drops a false
\* boolean with the other zero values before it looks at the kind.
C16_BooleansAlwaysEmitted ==
    output.set
    => LET st == input.inputStruct
       IN  /\ \A i \in Tagged :
                 st[i].kind = "bool"
                 => \E j \in 1 .. Len(Query) :
                       Query[j] = << st[i].tag, FormatBool(st[i].v[1]) >>
           /\ \A i \in Tagged :
                 (st[i].kind # "bool" /\ IsZero(st[i]))
                 => \A j \in 1 .. Len(Query) : Query[j][1] # QueryEscape(st[i].tag)
           /\ st = << Field("name", "string", << "" >>), Field("age", "int", << 0 >>),
                      Field("active", "bool", << FALSE >>) >>
              => Query = << << "active", "false" >> >>

\* The field of the input whose key is k in the query.
FieldOf(k) ==
    CHOOSE i \in 1 .. Len(input.inputStruct) :
        QueryEscape(input.inputStruct[i].tag) = k

\* C17: the pairs of different fields come in field-declaration order, and
\* the pairs of a slice field in element order; MyStruct of the documentation
\* encodes as name=John&age=30&tags=golang&tags=developer&is_admin=true.  The
\* code returns url.Values.Encode(), which sorts the pairs by key.
C17_DeclarationOrder ==
    output.set
    => LET st == input.inputStruct
       IN  /\ \A a, b \in 1 .. Len(Query) :
                 (a < b /\ Query[a][1] # Query[b][1])
                 => FieldOf(Query[a][1]) < FieldOf(Query[b][1])
           /\ \A i \in Tagged :
                 st[i].kind = "slice"
                 => SelectSeq(Query, LAMBDA q : q[1] = QueryEscape(st[i].tag))
                       = [j \in 1 .. Len(st[i].v) |->
                             << QueryEscape(st[i].tag), st[i].v[j] >>]
           /\ st = << Field("name", "string", << "John" >>),
                      Field("age", "int", << 30 >>),
                      Field("tags", "slice", << "golang", "developer" >>),
                      Field("is_admin", "bool", << TRUE >>) >>
              => Query = << << "name", "John" >>, << "age", "30" >>,
                            << "tags", "golang" >>, << "tags", "developer" >>,
                            << "is_admin", "true" >> >>

\* C18: the key of every pair is the JSON name of its field, also for a tag
\* with options: Assets of GetWalletParams goes out under "assets".  The code
\* takes the whole tag, options included, as the key.
C18_KeyIsJsonName ==
    output.set
    => LET st == input.inputStruct
       IN  /\ \A j \in 1 .. Len(Query) :
                 Query[j][1] \in {JsonName(st[i].tag) : i \in Tagged}
           /\ \A i \in Tagged :
                 st[i] = Field("assets,omitempty", "slice", << "BTC", "ETH" >>)
                 => SelectSeq(Query, LAMBDA q : q[1] = "assets")
                       = << << "assets", "BTC" >>, << "assets", "ETH" >> >>

-----------------------------------------------------------------------------
(* JWT.IsExpired and JWT.IsExpiredIn called on their own.  time.Now() and   *)
(* a time.Duration are finer than a second: both are counted in ticks, of   *)
(* which TicksPerSecond make a second.  Exp is in seconds.                  *)

TicksPerSecond == 2

\* The latest Exp and the latest second of time.Now() tried.
MaxExp == 4

\* Time.Unix(): the whole seconds of an instant.
Unix(ticks) == ticks \div TicksPerSecond

\* A faulty variant of IsExpiredIn that takes a token expiring at the end of
\* the window for expired.
IsExpiredInInclusive(j, tn, d) == j.Exp <= Unix(tn + d)

\* JWT.IsExpiredIn(d) at instant tn: j.Exp < int(time.Now().Add(d).Unix())
IsExpiredIn(j, tn, d) == j.Exp < Unix(tn + d)

\* The instants, expiry times and durations tried: a grid around the edges,
\* and a token that expires in an hour asked about two hours and half an hour.
ExpiryInputs ==
    [fn : {"IsExpiredIn"}, Exp : 0 .. MaxExp,
     nowTicks : 0 .. (MaxExp * TicksPerSecond),
     d : {0 - TicksPerSecond} \cup (0 .. (2 * TicksPerSecond))]
    \cup [fn : {"IsExpiredIn"}, Exp : {3600, 3601},
          nowTicks : 0 .. TicksPerSecond,
          d : {7200 * TicksPerSecond, 1800 * TicksPerSecond}]

InitExpiry ==
    /\ now = 0
    /\ NoClient
    /\ input \in ExpiryInputs
    /\ output = NoOutput

\* j.IsExpired() and j.IsExpiredIn(d) at the same instant
CallIsExpired ==
    /\ input.fn = "IsExpiredIn"
    /\ ~output.set
    /\ output' = Returned([IsExpired |-> IsExpired([Exp |-> input.Exp],
                                                   Unix(input.nowTicks)),
                           IsExpiredIn |-> IsExpiredIn([Exp |-> input.Exp],
                                                       input.nowTicks, input.d)])
    /\ UNCHANGED << now, c, built, pc, stack, calls, arg, entry, log, resp, err,
                    result, input >>

NextExpiry == CallIsExpired

SpecExpiry == InitExpiry /\ [][NextExpiry]_vars

\* C19 as claimed: IsExpired is Exp < now and IsExpiredIn(d) is Exp < now + d,
\* now being the current Unix time in seconds and d any duration.
C19_ExpiredBeforeNowPlusD ==
    output.set
    => /\ output.value.IsExpired <=> input.Exp < Unix(input.nowTicks)
       /\ output.value.IsExpiredIn
          <=> input.Exp * TicksPerSecond
                 < Unix(input.nowTicks) * TicksPerSecond + input.d

\* C19 as amended: IsExpired is Exp < now, strictly, now being the current
\* Unix time in seconds; IsExpiredIn(d) is Exp < the whole seconds of the
\* instant now + d, which is Exp < now + d when d is a whole number of
\* seconds; for d >= 0 IsExpired implies IsExpiredIn(d); a token that expires
\* in an hour is expired in two hours and not in half an hour.
C19_ExpiredBeforeSecondOfNowPlusD ==
    output.set
    => LET nowS == Unix(input.nowTicks)
       IN  /\ output.value.IsExpired <=> input.Exp < nowS
           /\ input.Exp = nowS => ~output.value.IsExpired
           /\ output.value.IsExpiredIn <=> input.Exp < Unix(input.nowTicks + input.d)
           /\ input.d % TicksPerSecond = 0
              => (output.value.IsExpiredIn
                    <=> input.Exp < nowS + input.d \div TicksPerSecond)
           /\ (input.d >= 0 /\ output.value.IsExpired) => output.value.IsExpiredIn
           /\ (input.Exp = nowS + 3600 /\ input.d = 7200 * TicksPerSecond)
              => output.value.IsExpiredIn
           /\ (input.Exp = nowS + 3600 /\ input.d = 1800 * TicksPerSecond)
              => ~output.value.IsExpiredIn

\* C19 happens: a token that expires this very second is not expired, and is
\* expired in a second.
C19_Witness ==
    /\ output.set
    /\ input.Exp = Unix(input.nowTicks)
    /\ input.d = TicksPerSecond
    /\ ~output.value.IsExpired
    /\ output.value.IsExpiredIn

-----------------------------------------------------------------------------
(* Headers.                                                                 *)

\* C20: every request handed to HttpClient.Do carries Content-Type:
\* application/json; the refresh and authenticate requests carry no
\* Authorization; the request of a Request carries one exactly when auth is
\* true, and it is the access token the client holds once handleAutoRefresh and
\* assertAuth are through: the one of the response when the call refreshed or
\* re-authenticated.
C20_Headers ==
    \A p \in Procs :
        \A i \in 1 .. Len(log[p]) :
            /\ log[p][i].ContentType = "application/json"
            /\ log[p][i].url \in {RefreshURL, AuthenticateURL}
               => log[p][i].Authorization = NoAuthorization
            /\ (stack[p][1] = "Request" /\ i \in MainRequests(p))
               => /\ log[p][i].Authorization.set <=> arg[p].auth
                  /\ arg[p].auth
                     => /\ log[p][i].Authorization = Bearer(c.AccessToken)
                        /\ c.AccessToken # Empty
                        /\ (pc[p] = "rq_wait" /\ i > 1)
                           => log[p][i].Authorization.bearer = resp[p].access
                        /\ i = 1 => c.AccessToken = entry[p].client.AccessToken

\* C20 happens: an authenticated request went out with the access token of
\* the refresh that came before it, not the one the call began with.
C20_Witness ==
    \E p \in Procs :
        /\ AuthenticatedRequest(p)
        /\ pc[p] = "rq_wait"
        /\ Len(log[p]) = 2
        /\ log[p][1].url = RefreshURL
        /\ log[p][1].Authorization = NoAuthorization
        /\ log[p][2].Authorization = Bearer(resp[p].access)
        /\ resp[p].access # entry[p].client.AccessToken

-----------------------------------------------------------------------------
(* Origin of the stored tokens.                                             *)

\* The step stores in AccessToken the access value of a response that an
\* authenticate or refresh request of caller p was answered with successfully.
StoresIssued(p) ==
    /\ pc[p] \in {"rf_wait", "au_wait"}
    /\ resp'[p].kind = "http"
    /\ RequestOutcome(resp'[p], TRUE).err = Nil
    /\ c'.AccessToken = resp'[p].access

\* C21: the AccessToken of a client NewClient returned is empty or decodes,
\* and it only ever changes to the value given to NewClient or to the access
\* value of a successful authenticate or refresh response.  The code stores
\* the access value of a response without decoding it.
C21_AccessTokenIssuedAndDecodable ==
    /\ [](built = "yes" /\ c.AccessToken # Empty
            => DecodeJWT(c.AccessToken).err = Nil)
    /\ [][ c'.AccessToken # c.AccessToken
           => \/ built = "no" /\ built' = "building"
              \/ built = "failed" /\ c' = ZeroClient
              \/ \E p \in Procs : StoresIssued(p) ]_vars

-----------------------------------------------------------------------------
(* Two goroutines on one client.  The client is built: its access token is  *)
(* expired, its refresh token is or is not, AutoRefresh is on.  Each        *)
(* goroutine                                                                *)
(* calls Request with auth, RefreshAccessToken or Authenticate; the steps   *)
(* of the two interleave between the reads and writes of the client.  The   *)
(* server answers a refresh with a new access token, an authenticate with a *)
(* new pair, or refuses.                                                    *)

\* The tokens the server issues: by a refresh, and the pair by an authenticate.
RefreshedAccess == Jwt(5)

AuthenticatedAccess == Jwt(6)

AuthenticatedRefresh == Jwt(7)

SharedClient ==
    [AccessToken |-> Jwt(0), RefreshToken |-> Jwt(1), ApiKey |-> "k",
     SecretKey |-> "s", AutoRefresh |-> TRUE, BaseUrl |-> BaseUrl]

SharedResponses(endpoint) ==
    {Http(401, NotJson("oops"), "ok", Empty, Empty),
     Http(200, JsonNull, "ok",
          CASE endpoint = "/usr/refresh_token/" -> RefreshedAccess
            [] endpoint = "/usr/authenticate/" -> AuthenticatedAccess
            [] OTHER -> Empty,
          IF endpoint = "/usr/authenticate/" THEN AuthenticatedRefresh ELSE Empty)}

SharedRequestArgs ==
    [method : {"GET"}, endpoint : {"/odr/orders/"}, auth : {TRUE}, body : {"ok"},
     hasResult : {FALSE}]

\* The same client with an expired refresh token.
SharedClients == {SharedClient, [SharedClient EXCEPT !.RefreshToken = Jwt(0)]}

InitShared ==
    /\ now = 1
    /\ c \in SharedClients
    /\ built = "yes"
    /\ pc = [p \in Procs |-> "idle"]
    /\ stack = [p \in Procs |-> << >>]
    /\ calls = [p \in Procs |-> << >>]
    /\ arg = [p \in Procs |-> NoArg]
    /\ entry = [p \in Procs |-> NoEntry]
    /\ log = [p \in Procs |-> << >>]
    /\ resp = [p \in Procs |-> NoResp]
    /\ err = [p \in Procs |-> Nil]
    /\ result = [p \in Procs |-> "untouched"]
    /\ input = NoInput
    /\ output = NoOutput

NextShared ==
    \/ \E p \in Procs : CheckAccessToken(p)
    \/ \E p \in Procs : CheckRefreshToken(p)
    \/ \E p \in Procs : RefreshAccessToken(p)
    \/ \E p \in Procs : RefreshSend(p)
    \/ \E p \in Procs, r \in SharedResponses("/usr/refresh_token/") :
          RefreshReceive(p, r)
    \/ \E p \in Procs : Authenticate(p, "k", "s")
    \/ \E p \in Procs, r \in SharedResponses("/usr/authenticate/") :
          AuthenticateReceive(p, r)
    \/ \E p \in Procs, a \in SharedRequestArgs : Request(p, a)
    \/ \E p \in Procs : RequestResume(p)
    \/ \E p \in Procs : RequestAssertAuth(p)
    \/ \E p \in Procs : RequestSend(p)
    \/ \E p \in Procs, r \in SharedResponses("/odr/orders/") : RequestReceive(p, r)
    \/ \E p \in Procs : Return(p)

SpecShared == InitShared /\ [][NextShared]_vars
\* The steps of caller p inside an operation, each of its dispatches being
\* answered.
Progress(p) ==
    \/ CheckAccessToken(p)
    \/ CheckRefreshToken(p)
    \/ RefreshSend(p)
    \/ \E r \in SharedResponses("/usr/refresh_token/") : RefreshReceive(p, r)
    \/ \E r \in SharedResponses("/usr/authenticate/") : AuthenticateReceive(p, r)
    \/ RequestResume(p)
    \/ RequestAssertAuth(p)
    \/ RequestSend(p)
    \/ \E r \in SharedResponses("/odr/orders/") : RequestReceive(p, r)

\* Every goroutine inside an operation goes on, and every dispatch returns.
SpecSharedFair == SpecShared /\ \A p \in Procs : WF_vars(Progress(p))

\* C22: nothing keeps a caller from the refresh while another caller is at
\* it: whoever finds the access token expired in handleAutoRefresh enters
\* RefreshAccessToken, so two concurrent authenticated Requests can both find
\* it expired and both send a refresh request.
C22_NoMutualExclusion ==
    [][ \A p \in Procs :
          ( /\ pc[p] = "har_access"
            /\ pc'[p] # "har_access"
            /\ ExpiredAt(c.AccessToken, now) )
          => /\ pc'[p] = "rf_send"
             /\ Top(stack'[p]) = "RefreshAccessToken"
      ]_vars

\* C22 happens: two authenticated Requests on the client, each has found the
\* access token expired and has its refresh request out.
C22_Witness ==
    /\ \A p \in Procs :
          /\ AuthenticatedRequest(p)
          /\ pc[p] = "rf_wait"
          /\ Len(log[p]) = 1
          /\ log[p][1].url = RefreshURL
    /\ ExpiredAt(c.AccessToken, now)

-----------------------------------------------------------------------------
(* Decoding of a 2xx response.                                              *)

\* C23: a 2xx response whose body does not decode into the target given makes
\* Request return a RequestError of operation "parsing response", with no
\* APIError in its chain and no status code; without a target a 2xx response
\* is a success, whatever the body.
C23_DecodeFailureIsRequestError ==
    \A p \in Procs :
        (MainAnswered(p) /\ resp[p].status >= 200 /\ resp[p].status < 300)
        => IF arg[p].hasResult /\ resp[p].decodes # "ok"
           THEN /\ err[p] # Nil
                /\ err[p][1].type = "RequestError"
                /\ err[p][1].Operation = "parsing response"
                /\ ~IsAPIError(err[p])
                /\ \A i \in 1 .. Len(err[p]) : err[p][i].StatusCode = 0
                /\ result[p] # "written"
           ELSE /\ err[p] = Nil
                /\ arg[p].hasResult <=> result[p] = "written"

\* C23 happens: a 200 with a body that is no JSON, with a target or without.
C23_Witness ==
    \E p \in Procs :
        /\ MainAnswered(p)
        /\ resp[p].status = 200
        /\ resp[p].decodes = "syntax"
        /\ \/ arg[p].hasResult /\ err[p][1].Operation = "parsing response"
           \/ ~arg[p].hasResult /\ err[p] = Nil

-----------------------------------------------------------------------------
(* Dispatches of one Request.                                               *)

\* The places in caller p's requests of those sent to url.
Sent(p, url) == {i \in 1 .. Len(log[p]) : log[p][i].url = url}

\* Caller p is inside a Request.
InRequest(p) == stack[p] # << >> /\ stack[p][1] = "Request"

\* One Request never enters handleAutoRefresh twice and hands HttpClient.Do at
\* most one refresh, then at most one authenticate, then at most one request
\* of its own.
AtMostThreeDispatches(p) ==
    /\ Cardinality({i \in 1 .. Len(calls[p]) : calls[p][i] = "handleAutoRefresh"}) <= 1
    /\ Len(log[p]) <= 3
    /\ Cardinality(Sent(p, RefreshURL)) <= 1
    /\ Cardinality(Sent(p, AuthenticateURL)) <= 1
    /\ Cardinality(MainRequests(p)) <= 1
    /\ \A i \in Sent(p, RefreshURL) : \A j \in Sent(p, AuthenticateURL) : i < j
    /\ \A i \in Sent(p, RefreshURL) \cup Sent(p, AuthenticateURL) :
          \A j \in MainRequests(p) : i < j

\* C24: the authenticate and refresh requests do not go through
\* handleAutoRefresh again, so one Request makes at most three dispatches, in
\* the order refresh, authenticate, own request, and it returns once its
\* dispatches are answered.
C24_ThreeDispatchesAndReturn ==
    /\ [](\A p \in Procs : InRequest(p) => AtMostThreeDispatches(p))
    /\ \A p \in Procs : InRequest(p) ~> pc[p] = "done"

\* C24 happens: a Request that refreshed, re-authenticated and sent its own
\* request has returned.
C24_Witness ==
    \E p \in Procs :
        /\ InRequest(p)
        /\ pc[p] = "done"
        /\ Len(log[p]) = 3
        /\ log[p][1].url = RefreshURL
        /\ log[p][2].url = AuthenticateURL
        /\ MainRequests(p) = {3}

-----------------------------------------------------------------------------
(* handleAutoRefresh on a client without an access token.                   *)

\* Caller p's operation began on a client without an access token and has
\* entered handleAutoRefresh.
NoAccessAtEntry(p) ==
    /\ entry[p].client.AccessToken = Empty
    /\ Entered(p, "handleAutoRefresh")

\* The refresh token caller p's operation began with is empty or still
\* unexpired now, so that no check of it made so far found it expired.
RefreshEmptyOrValid(p) ==
    \/ entry[p].client.RefreshToken = Empty
    \/ UnexpiredAt(entry[p].client.RefreshToken, now)

\* Without an access token handleAutoRefresh sends no refresh, and with a
\* refresh token that is empty or valid it returns nil, having sent nothing
\* and changed nothing.
NoRefreshWithoutAccess(p) ==
    NoAccessAtEntry(p)
    => /\ Sent(p, RefreshURL) = {}
       /\ (AutoRefreshReturned(p) /\ RefreshEmptyOrValid(p))
          => /\ err[p] = Nil
             /\ log[p] = << >>
             /\ c = entry[p].client

\* An authenticated Request, its arguments encoded, on a client without an
\* access token and with a refresh token that is empty or valid, fails at the
\* gate and sends nothing.
FailsAtGateWithoutAccess(p) ==
    (/\ AuthenticatedRequest(p)
     /\ ~EncodingFails(p)
     /\ entry[p].client.AccessToken = Empty
     /\ RefreshEmptyOrValid(p))
    => /\ log[p] = << >>
       /\ pc[p] = "done" => err[p] = GateError(GoBitpinError("access token is empty", Nil))

\* C25 as stated: handleAutoRefresh never acquires a missing token, whatever
\* the refresh token is.
C25_NeverAcquiresMissingToken ==
    \A p \in Procs :
        /\ NoRefreshWithoutAccess(p)
        /\ FailsAtGateWithoutAccess(p)
        /\ (NoAccessAtEntry(p) /\ AutoRefreshReturned(p)) => c.AccessToken = Empty

\* C25: with an empty access token handleAutoRefresh sends no refresh, and
\* with a refresh token that is empty or valid it returns nil without a
\* request, so that an authenticated Request whose arguments encode fails at
\* the gate with "access token is empty" and dispatches nothing.  The one
\* way it acquires a missing access token is the re-authentication on an
\* expired refresh token with both keys set.
C25_AcquiresOnlyByReauthentication ==
    \A p \in Procs :
        /\ NoRefreshWithoutAccess(p)
        /\ FailsAtGateWithoutAccess(p)
        /\ (NoAccessAtEntry(p) /\ AutoRefreshReturned(p) /\ c.AccessToken # Empty)
           => /\ ExpiredAt(entry[p].client.RefreshToken, now)
              /\ entry[p].client.ApiKey # "" /\ entry[p].client.SecretKey # ""
              /\ Len(log[p]) = 1 /\ log[p][1].url = AuthenticateURL
              /\ err[p] = Nil

\* C25 happens: an authenticated Request on a client with AutoRefresh, no
\* access token and a valid refresh token went through handleAutoRefresh and
\* failed at the gate.
C25_Witness ==
    \E p \in Procs :
        /\ AuthenticatedRequest(p)
        /\ NoAccessAtEntry(p)
        /\ UnexpiredAt(entry[p].client.RefreshToken, now)
        /\ pc[p] = "done"
        /\ err[p] = GateError(GoBitpinError("access token is empty", Nil))
        /\ log[p] = << >>

-----------------------------------------------------------------------------
(* The configuration of a constructed client.                               *)

\* The fields of the client that NewClient sets from its options.
Configuration(client) ==
    << client.ApiKey, client.SecretKey, client.BaseUrl, client.AutoRefresh >>

\* C26: no step on a constructed client changes ApiKey, SecretKey, BaseUrl or
\* AutoRefresh, an Authenticate with given keys included; so whenever
\* handleAutoRefresh finds the refresh token expired on a client without keys
\* it returns the missing-credentials error and sends nothing.
C26_ConfigurationFrozen ==
    [][ /\ (built = "yes" /\ built' = "yes")
           => Configuration(c') = Configuration(c)
        /\ \A p \in Procs :
              (/\ pc[p] = "har_refresh"
               /\ pc'[p] # pc[p]
               /\ built = "yes"
               /\ ExpiredAt(c.RefreshToken, now)
               /\ (c.ApiKey = "" \/ c.SecretKey = ""))
              => /\ pc'[p] = "har_ret"
                 /\ err'[p] = MissingCredentials
                 /\ log'[p] = log[p]
      ]_vars

\* C26 happens: an Authenticate with keys succeeded on a client built without
\* keys, the client still has none, and the refresh token it stored has
\* expired.
C26_Witness ==
    \E p \in Procs :
        /\ built = "yes"
        /\ pc[p] = "done"
        /\ stack[p] = << "Authenticate" >>
        /\ err[p] = Nil
        /\ arg[p].ApiKey # "" /\ arg[p].SecretKey # ""
        /\ c.ApiKey = "" /\ c.SecretKey = ""
        /\ resp[p].kind = "http"
        /\ c.RefreshToken = resp[p].refresh
        /\ ExpiredAt(c.RefreshToken, now)

-----------------------------------------------------------------------------
(* What a failed handleAutoRefresh leaves behind.                           *)

\* handleAutoRefresh has returned an error to caller p.
AutoRefreshFailed(p) == AutoRefreshReturned(p) /\ err[p] # Nil

\* handleAutoRefresh has returned an error to caller p although the access
\* token is no more the one the operation began with.
FailedAfterRefresh(p) ==
    AutoRefreshFailed(p) /\ c.AccessToken # entry[p].client.AccessToken

\* C27: when handleAutoRefresh returns an error the refresh token is the one
\* it began with; the access token may have been replaced, and then the
\* refresh was sent first and the error is that of the second step: the
\* refresh token does not decode, the keys are missing, or the authenticate
\* request failed.
C27_FailureKeepsRefreshToken ==
    \A p \in Procs :
        /\ AutoRefreshFailed(p) => c.RefreshToken = entry[p].client.RefreshToken
        /\ FailedAfterRefresh(p)
           => /\ log[p] # << >>
              /\ log[p][1].url = RefreshURL
              /\ \/ Len(log[p]) = 1 /\ err[p] = DecodeJWT(c.RefreshToken).err
                 \/ Len(log[p]) = 1 /\ err[p] = MissingCredentials
                 \/ Len(log[p]) = 2 /\ log[p][2].url = AuthenticateURL

\* C27 happens: the refresh succeeded and replaced the access token, then
\* the authenticate request failed, and handleAutoRefresh returned its error.
C27_Witness ==
    \E p \in Procs :
        /\ FailedAfterRefresh(p)
        /\ Len(log[p]) = 2
        /\ log[p][2].url = AuthenticateURL

-----------------------------------------------------------------------------
(* The access token a refresh stores.                                       *)

\* handleAutoRefresh of caller p has refreshed the access token and stands
\* before its check of the refresh token.
RefreshedInAutoRefresh(p) ==
    /\ Entered(p, "handleAutoRefresh")
    /\ pc[p] = "har_refresh"
    /\ log[p] # << >>

\* C28: after a successful refresh inside handleAutoRefresh the access token
\* is the access member of the response, whatever it is; handleAutoRefresh
\* goes on to the refresh token, does not examine the access token again and
\* sends no second refresh.
C28_RefreshedTokenStoredUnvalidated ==
    /\ [](\A p \in Procs :
             /\ RefreshedInAutoRefresh(p)
                => /\ Len(log[p]) = 1
                   /\ log[p][1].url = RefreshURL
                   /\ resp[p].kind = "http"
                   /\ c.AccessToken = resp[p].access
             /\ Entered(p, "handleAutoRefresh")
                => Cardinality(Sent(p, RefreshURL)) <= 1)
    /\ [][ \A p \in Procs :
              /\ (pc'[p] = "har_access" /\ pc[p] # "har_access")
                 => log'[p] = << >>
              /\ (pc[p] = "rf_wait" /\ pc'[p] # "rf_wait" /\ Len(stack[p]) > 1
                  /\ RequestOutcome(resp'[p], TRUE).err = Nil)
                 => /\ pc'[p] = "har_refresh"
                    /\ c'.AccessToken = resp'[p].access
         ]_vars

\* C28 happens: handleAutoRefresh returned nil after one refresh, and the
\* access token it stored is already expired.
C28_Witness ==
    \E p \in Procs :
        /\ AutoRefreshReturned(p)
        /\ err[p] = Nil
        /\ Len(log[p]) = 1
        /\ log[p][1].url = RefreshURL
        /\ c.AccessToken = resp[p].access
        /\ ExpiredAt(c.AccessToken, now)

-----------------------------------------------------------------------------
(* A refresh and an authenticate on one client.                             *)

\* Caller p has its refresh request out, and the refresh token of the client
\* is no more the one that request carries.
RefreshOutdated(p) ==
    /\ pc[p] = "rf_wait"
    /\ c.RefreshToken # log[p][Len(log[p])].body.refresh

\* C29: RefreshAccessToken reads the refresh token before its request and
\* writes the access token after the response without looking at the refresh
\* token again: a successful response is stored even when an Authenticate of
\* another caller has replaced the refresh token in between, and the refresh
\* token that Authenticate stored stays.
C29_RefreshStoresOverAuthenticate ==
    [][ \A p \in Procs :
          ( /\ RefreshOutdated(p)
            /\ pc'[p] # "rf_wait"
            /\ RequestOutcome(resp'[p], TRUE).err = Nil )
          => /\ c'.AccessToken = resp'[p].access
             /\ c'.RefreshToken = c.RefreshToken
      ]_vars

\* C29 happens: one caller's RefreshAccessToken and the other's Authenticate
\* have both returned nil; the refresh token is the one the authenticate
\* issued, the access token the one minted for the refresh token the client
\* began with.
C29_Witness ==
    \E p, q \in Procs :
        /\ pc[p] = "done" /\ stack[p] = << "RefreshAccessToken" >> /\ err[p] = Nil
        /\ pc[q] = "done" /\ stack[q] = << "Authenticate" >> /\ err[q] = Nil
        /\ log[p][1].body.refresh = entry[p].client.RefreshToken
        /\ c.RefreshToken = AuthenticatedRefresh
        /\ c.AccessToken = RefreshedAccess
        /\ c.RefreshToken # entry[p].client.RefreshToken

-----------------------------------------------------------------------------
(* The raw fallback of parseErrorResponse.                                  *)

\* The body is an object whose detail and code members are absent, strings
\* or null, and whose messages member is absent, an object of strings or
\* null.
WellTyped(b) ==
    /\ b.json = "object"
    /\ \A f \in {"detail", "code"} \cap DOMAIN b.m : b.m[f].k \in {"str", "null"}
    /\ "messages" \in DOMAIN b.m => b.m["messages"].k \in {"map", "null"}

\* The body is an object that is neither a map to string lists nor a map to
\* strings.
NeitherMap(b) ==
    /\ b.json = "object"
    /\ \E f \in DOMAIN b.m : b.m[f].k \notin {"list", "null"}
    /\ \E f \in DOMAIN b.m : b.m[f].k \notin {"str", "null"}

\* The error returned is the raw fallback for body b.
RawFallback(b) == Details = [f \in {"raw"} |-> << b.text >>]

====
